---- MODULE Spec2Model ----
(***************************************************************************)
(* A model of packages/core/rsc/streamable.tsx: the two streamable cores   *)
(* (createStreamableUI, createStreamableValue) and the render orchestrator *)
(* that drives a UI stream from a chat-completion event stream.            *)
(*                                                                         *)
(* A promise is an index into a handle's `promises` sequence.  A JS object *)
(* is a TLA+ record whose DOMAIN is the set of keys the object has, so an  *)
(* absent key (no `next`, no `append`, the empty record {}) is an absent   *)
(* field.  React nodes and errors are opaque references, compared by       *)
(* identity as === compares them.                                          *)
(***************************************************************************)
EXTENDS Integers, Sequences, FiniteSets, TLC

\* ------------------------------------------------------------------ bounds
MaxNode == 2
MaxErr == 1
MaxCalls == 3
MaxText == 2
MaxCallEvents == 1
MaxTools == 1
MaxRenderNode == 1
MaxYields == 1
MaxPulls == 3

NodeNames == <<"n1", "n2", "n3", "n4">>
ErrNames == <<"e1", "e2", "e3">>
\* the accumulated `content` string after 0, 1, 2, .. chunks
ContentNames == <<"", "c1", "c2", "c3", "c4", "c5">>

\* ------------------------------------------------------------- JS values
Undefined == "undefined"
Null == "null"
Nodes == {NodeNames[i] : i \in 1..MaxNode}
Values == Nodes \cup {Undefined, Null}
Errors == {ErrNames[i] : i \in 1..MaxErr} \cup {Undefined}
\* an argument list `...args`: [] or [value]
ArgLists == {<<>>} \cup {<<v>> : v \in Values}

NoThrow == "returned"

VARIABLES
    subject,   \* which factory the harness called
    initial,   \* the initialValue it passed
    dev,       \* process.env.NODE_ENV === 'development'
    ui,        \* the handle closure of createStreamableUI
    sv,        \* the handle closure of createStreamableValue
    calls,     \* the calls made on the handle so far, with their arguments
    opts,      \* render: which of text, experimental_textRender, functions, tools are set
    flow,      \* render: where the call and the event stream stand
    loc,       \* render: the locals of the stream-consuming async closure
    invs,      \* render: the handleRender invocations made so far
    finished   \* render: the outer `finished` promise chain (line 339)

coreVars == <<subject, initial, dev, ui, sv, calls>>
renderVars == <<opts, flow, loc, invs, finished>>
vars == <<subject, initial, dev, ui, sv, calls, opts, flow, loc, invs, finished>>

\* ------------------------------------------------------ resolvable promise
Pending == [status |-> "pending"]

\* createResolvablePromise(): a fresh pending promise at the end of the pool
createResolvablePromise(ps) == Append(ps, Pending)

\* the resolve trigger of promise p: a settled promise ignores it
Resolve(ps, p, chunk) ==
    IF ps[p].status = "pending"
    THEN [ps EXCEPT ![p] = [status |-> "resolved", val |-> chunk]]
    ELSE ps

\* the reject trigger of promise p
Reject(ps, p, err) ==
    IF ps[p].status = "pending"
    THEN [ps EXCEPT ![p] = [status |-> "rejected", reason |-> err]]
    ELSE ps

\* createSuspensedChunk(initialValue): the first link and the triggers of its next
createSuspensedChunk(initialValue) ==
    [row |-> [value |-> initialValue, done |-> FALSE, next |-> 1],
     resolve |-> 1,
     reject |-> 1,
     promises |-> createResolvablePromise(<<>>)]

\* ---------------------------------------------------- createStreamableUI
UIClosedMessage(method) == method \o ": UI stream is already closed."

\* warnUnclosedStream(): (re)arms the inactivity timer in development only
warnUnclosedStream(h) ==
    IF dev THEN [h EXCEPT !.warningTimeout = "armed"] ELSE h

\* if (warningTimeout) clearTimeout(warningTimeout)
clearWarning(h) ==
    IF h.warningTimeout # "unset" THEN [h EXCEPT !.warningTimeout = "cleared"] ELSE h

createStreamableUI(initialValue) ==
    LET c == createSuspensedChunk(initialValue)
    IN  warnUnclosedStream(
            [currentValue |-> initialValue,
             closed |-> FALSE,
             value |-> c.row,
             resolve |-> c.resolve,
             reject |-> c.reject,
             promises |-> c.promises,
             warningTimeout |-> "unset",
             thrown |-> NoThrow])

UIThrows(h, method) == [h EXCEPT !.thrown = UIClosedMessage(method)]

\* UIUpdate without the referential-equality shortcut
UIUpdateAlwaysEmits(h, value) ==
    IF h.closed THEN UIThrows(h, ".update()")
    ELSE LET ps == createResolvablePromise(h.promises)
             resolvable == Len(ps)
         IN  warnUnclosedStream(
                 [h EXCEPT !.currentValue = value,
                           !.promises = Resolve(ps, h.resolve,
                               [value |-> value, done |-> FALSE, next |-> resolvable]),
                           !.resolve = resolvable,
                           !.reject = resolvable,
                           !.thrown = NoThrow])

\* UIUpdate that rotates resolve but forgets `reject = resolvable.reject`
UIUpdateStaleReject(h, value) ==
    IF h.closed THEN UIThrows(h, ".update()")
    ELSE IF value = h.currentValue
    THEN warnUnclosedStream([h EXCEPT !.thrown = NoThrow])
    ELSE LET ps == createResolvablePromise(h.promises)
             resolvable == Len(ps)
         IN  warnUnclosedStream(
                 [h EXCEPT !.currentValue = value,
                           !.promises = Resolve(ps, h.resolve,
                               [value |-> value, done |-> FALSE, next |-> resolvable]),
                           !.resolve = resolvable,
                           !.thrown = NoThrow])

UIUpdate(h, value) ==
    IF h.closed THEN UIThrows(h, ".update()")
    ELSE IF value = h.currentValue
    THEN warnUnclosedStream([h EXCEPT !.thrown = NoThrow])
    ELSE LET ps == createResolvablePromise(h.promises)
             resolvable == Len(ps)
         IN  warnUnclosedStream(
                 [h EXCEPT !.currentValue = value,
                           !.promises = Resolve(ps, h.resolve,
                               [value |-> value, done |-> FALSE, next |-> resolvable]),
                           !.resolve = resolvable,
                           !.reject = resolvable,
                           !.thrown = NoThrow])

\* UIAppend that forgets to rotate the tail (`resolve = resolvable.resolve`)
UIAppendKeepsTail(h, value) ==
    IF h.closed THEN UIThrows(h, ".append()")
    ELSE LET ps == createResolvablePromise(h.promises)
             resolvable == Len(ps)
         IN  warnUnclosedStream(
                 [h EXCEPT !.currentValue = value,
                           !.promises = Resolve(ps, h.resolve,
                               [value |-> value, done |-> FALSE, append |-> TRUE,
                                next |-> resolvable]),
                           !.thrown = NoThrow])

\* UIAppend with update's referential-equality shortcut
UIAppendSkipsEqual(h, value) ==
    IF h.closed THEN UIThrows(h, ".append()")
    ELSE IF value = h.currentValue
    THEN warnUnclosedStream([h EXCEPT !.thrown = NoThrow])
    ELSE LET ps == createResolvablePromise(h.promises)
             resolvable == Len(ps)
         IN  warnUnclosedStream(
                 [h EXCEPT !.currentValue = value,
                           !.promises = Resolve(ps, h.resolve,
                               [value |-> value, done |-> FALSE, append |-> TRUE,
                                next |-> resolvable]),
                           !.resolve = resolvable,
                           !.reject = resolvable,
                           !.thrown = NoThrow])

UIAppend(h, value) ==
    IF h.closed THEN UIThrows(h, ".append()")
    ELSE LET ps == createResolvablePromise(h.promises)
             resolvable == Len(ps)
         IN  warnUnclosedStream(
                 [h EXCEPT !.currentValue = value,
                           !.promises = Resolve(ps, h.resolve,
                               [value |-> value, done |-> FALSE, append |-> TRUE,
                                next |-> resolvable]),
                           !.resolve = resolvable,
                           !.reject = resolvable,
                           !.thrown = NoThrow])

\* UIError that rejects the tail but forgets `closed = true`
UIErrorStaysOpen(h, error) ==
    IF h.closed THEN UIThrows(h, ".error()")
    ELSE LET c == clearWarning(h)
         IN  [c EXCEPT !.promises = Reject(h.promises, h.reject, error),
                       !.thrown = NoThrow]

UIError(h, error) ==
    IF h.closed THEN UIThrows(h, ".error()")
    ELSE LET c == clearWarning(h)
         IN  [c EXCEPT !.closed = TRUE,
                       !.promises = Reject(h.promises, h.reject, error),
                       !.thrown = NoThrow]

\* UIDone written as `value ?? currentValue` instead of testing args.length
UIDoneNullish(h, args) ==
    IF h.closed THEN UIThrows(h, ".done()")
    ELSE LET c == clearWarning(h)
             value == IF Len(args) # 0 /\ args[1] \notin {Undefined, Null}
                      THEN args[1] ELSE h.currentValue
         IN  [c EXCEPT !.closed = TRUE,
                       !.promises = Resolve(h.promises, h.resolve,
                                            [value |-> value, done |-> TRUE]),
                       !.thrown = NoThrow]

UIDone(h, args) ==
    IF h.closed THEN UIThrows(h, ".done()")
    ELSE LET c == clearWarning(h)
         IN  IF Len(args) # 0
             THEN [c EXCEPT !.closed = TRUE,
                            !.promises = Resolve(h.promises, h.resolve,
                                [value |-> args[1], done |-> TRUE]),
                            !.thrown = NoThrow]
             ELSE [c EXCEPT !.closed = TRUE,
                            !.promises = Resolve(h.promises, h.resolve,
                                [value |-> h.currentValue, done |-> TRUE]),
                            !.thrown = NoThrow]

\* ------------------------------------------------- createStreamableValue
STREAMABLE_VALUE_TYPE == "$$typeof.streamable"

SVClosedMessage(method) == method \o ": Value stream is already closed."

\* createWrapped that attaches the type marker whatever withType is
createWrappedAlwaysTyped(h, withType) ==
    LET init == IF h.currentError = Undefined
                THEN [curr |-> h.currentValue]
                ELSE [error |-> h.currentError]
        withNext == IF h.currentPromise # 0
                    THEN init @@ [next |-> h.currentPromise]
                    ELSE init
    IN  withNext @@ [type |-> STREAMABLE_VALUE_TYPE]

\* createWrapped(withType): the compact record of the current state
createWrapped(h, withType) ==
    LET init == IF h.currentError = Undefined
                THEN [curr |-> h.currentValue]
                ELSE [error |-> h.currentError]
        withNext == IF h.currentPromise # 0
                    THEN init @@ [next |-> h.currentPromise]
                    ELSE init
    IN  IF withType THEN withNext @@ [type |-> STREAMABLE_VALUE_TYPE] ELSE withNext

createStreamableValue(initialValue) ==
    warnUnclosedStream(
        [closed |-> FALSE,
         resolvable |-> 1,
         currentValue |-> initialValue,
         currentError |-> Undefined,
         currentPromise |-> 1,
         promises |-> createResolvablePromise(<<>>),
         warningTimeout |-> "unset",
         thrown |-> NoThrow])

SVThrows(h, method) == [h EXCEPT !.thrown = SVClosedMessage(method)]

\* SVUpdate with the UI flavour's referential-equality shortcut
SVUpdateSkipsEqual(h, value) ==
    IF h.closed THEN SVThrows(h, ".update()")
    ELSE IF value = h.currentValue
    THEN warnUnclosedStream([h EXCEPT !.thrown = NoThrow])
    ELSE LET resolvePrevious == h.resolvable
             ps == createResolvablePromise(h.promises)
             h1 == [h EXCEPT !.resolvable = Len(ps),
                             !.currentValue = value,
                             !.currentPromise = Len(ps),
                             !.thrown = NoThrow]
         IN  warnUnclosedStream(
                 [h1 EXCEPT !.promises =
                     Resolve(ps, resolvePrevious, createWrapped(h1, FALSE))])

\* SVUpdate that makes the new promise but keeps the old resolve trigger
SVUpdateKeepsResolvable(h, value) ==
    IF h.closed THEN SVThrows(h, ".update()")
    ELSE LET resolvePrevious == h.resolvable
             ps == createResolvablePromise(h.promises)
             h1 == [h EXCEPT !.currentValue = value,
                             !.currentPromise = Len(ps),
                             !.thrown = NoThrow]
         IN  warnUnclosedStream(
                 [h1 EXCEPT !.promises =
                     Resolve(ps, resolvePrevious, createWrapped(h1, FALSE))])

SVUpdate(h, value) ==
    IF h.closed THEN SVThrows(h, ".update()")
    ELSE LET resolvePrevious == h.resolvable
             ps == createResolvablePromise(h.promises)
             h1 == [h EXCEPT !.resolvable = Len(ps),
                             !.currentValue = value,
                             !.currentPromise = Len(ps),
                             !.thrown = NoThrow]
         IN  warnUnclosedStream(
                 [h1 EXCEPT !.promises =
                     Resolve(ps, resolvePrevious, createWrapped(h1, FALSE))])

\* SVError that rejects the tail as the UI flavour does
SVErrorRejects(h, error) ==
    IF h.closed THEN SVThrows(h, ".error()")
    ELSE LET c == clearWarning(h)
         IN  [c EXCEPT !.closed = TRUE,
                       !.currentError = error,
                       !.currentPromise = 0,
                       !.promises = Reject(h.promises, h.resolvable, error),
                       !.thrown = NoThrow]

SVError(h, error) ==
    IF h.closed THEN SVThrows(h, ".error()")
    ELSE LET c == clearWarning(h)
         IN  [c EXCEPT !.closed = TRUE,
                       !.currentError = error,
                       !.currentPromise = 0,
                       !.promises = Resolve(h.promises, h.resolvable, [error |-> error]),
                       !.thrown = NoThrow]

SVDone(h, args) ==
    IF h.closed THEN SVThrows(h, ".done()")
    ELSE LET c == clearWarning(h)
         IN  IF Len(args) # 0
             THEN [c EXCEPT !.closed = TRUE,
                            !.currentPromise = 0,
                            !.currentValue = args[1],
                            !.promises = Resolve(h.promises, h.resolvable,
                                                 [curr |-> args[1]]),
                            !.thrown = NoThrow]
             ELSE [c EXCEPT !.closed = TRUE,
                            !.currentPromise = 0,
                            !.promises = Resolve(h.promises, h.resolvable, <<>>),
                            !.thrown = NoThrow]

\* --------------------------------------------------- the cores' harness
\* One call on a handle, as the caller made it and saw it end: `outcome` is
\* NoThrow or the message of the Error it threw.
Call(method, args, outcome) == [method |-> method, args |-> args, outcome |-> outcome]

CanCall == Len(calls) < MaxCalls

CallUIUpdate ==
    /\ subject = "createStreamableUI" /\ CanCall
    /\ \E v \in Values :
         /\ ui' = UIUpdate(ui, v)
         /\ calls' = Append(calls, Call("update", <<v>>, ui'.thrown))
    /\ UNCHANGED <<subject, initial, dev, sv, renderVars>>

CallUIAppend ==
    /\ subject = "createStreamableUI" /\ CanCall
    /\ \E v \in Values :
         /\ ui' = UIAppend(ui, v)
         /\ calls' = Append(calls, Call("append", <<v>>, ui'.thrown))
    /\ UNCHANGED <<subject, initial, dev, sv, renderVars>>

CallUIError ==
    /\ subject = "createStreamableUI" /\ CanCall
    /\ \E e \in Errors :
         /\ ui' = UIError(ui, e)
         /\ calls' = Append(calls, Call("error", <<e>>, ui'.thrown))
    /\ UNCHANGED <<subject, initial, dev, sv, renderVars>>

CallUIDone ==
    /\ subject = "createStreamableUI" /\ CanCall
    /\ \E a \in ArgLists :
         /\ ui' = UIDone(ui, a)
         /\ calls' = Append(calls, Call("done", a, ui'.thrown))
    /\ UNCHANGED <<subject, initial, dev, sv, renderVars>>

CallSVUpdate ==
    /\ subject = "createStreamableValue" /\ CanCall
    /\ \E v \in Values :
         /\ sv' = SVUpdate(sv, v)
         /\ calls' = Append(calls, Call("update", <<v>>, sv'.thrown))
    /\ UNCHANGED <<subject, initial, dev, ui, renderVars>>

CallSVError ==
    /\ subject = "createStreamableValue" /\ CanCall
    /\ \E e \in Errors :
         /\ sv' = SVError(sv, e)
         /\ calls' = Append(calls, Call("error", <<e>>, sv'.thrown))
    /\ UNCHANGED <<subject, initial, dev, ui, renderVars>>

CallSVDone ==
    /\ subject = "createStreamableValue" /\ CanCall
    /\ \E a \in ArgLists :
         /\ sv' = SVDone(sv, a)
         /\ calls' = Append(calls, Call("done", a, sv'.thrown))
    /\ UNCHANGED <<subject, initial, dev, ui, renderVars>>

\* reading the `value` getter of the value stream
CallSVValue ==
    /\ subject = "createStreamableValue" /\ CanCall
    /\ calls' = Append(calls, Call("value", <<>>, NoThrow) @@
                               [result |-> createWrapped(sv, TRUE)])
    /\ UNCHANGED <<subject, initial, dev, ui, sv, renderVars>>

\* render has not been called
RenderNotCalled ==
    /\ opts = [text |-> FALSE, textRender |-> FALSE, functions |-> FALSE, tools |-> FALSE]
    /\ flow = [pc |-> "idle", thrown |-> NoThrow, providerCalls |-> 0, texts |-> 0,
               callEvents |-> 0, handler |-> "none"]
    /\ loc = [hasFunction |-> FALSE, triggeredTextRender |-> FALSE, content |-> 0,
              textPayloads |-> <<>>, textResolver |-> "null", done |-> FALSE,
              pull |-> "idle", pulled |-> <<>>]
    /\ invs = <<>>
    /\ finished = <<>>

InitCore ==
    /\ subject \in {"createStreamableUI", "createStreamableValue"}
    /\ dev \in BOOLEAN
    /\ initial \in Values
    /\ ui = createStreamableUI(initial)
    /\ sv = createStreamableValue(initial)
    /\ calls = <<>>
    /\ RenderNotCalled

NextCore ==
    \/ CallUIUpdate
    \/ CallUIAppend
    \/ CallUIError
    \/ CallUIDone
    \/ CallSVUpdate
    \/ CallSVError
    \/ CallSVDone
    \/ CallSVValue

Init == InitCore

Next == NextCore

Spec == Init /\ [][Next]_vars

\* ================================================================ render
TextConflictMessage ==
    "You cannot use both text and textRender at the same time."
FunctionsConflictMessage ==
    "You cannot have both functions and tools defined."

\* renderChecks without the functions/tools test
renderChecksTextOnly(o) ==
    LET textRender == o.textRender
        text == o.text \/ ~textRender
    IN  IF textRender /\ text THEN TextConflictMessage ELSE NoThrow

\* the two option checks of render, in its order: NoThrow or the message thrown.
\* `text` is options.text, or the default renderer when there is no textRender.
renderChecks(o) ==
    LET textRender == o.textRender
        text == o.text \/ ~textRender
    IN  IF textRender /\ text THEN TextConflictMessage
        ELSE IF o.functions /\ o.tools THEN FunctionsConflictMessage
        ELSE NoThrow

\* `let finished = false` of the async closure: it shadows the outer promise
\* chain in every handler and is never assigned
finishedInner == FALSE

\* `let hasTextRender = !!textRender`
hasTextRender == opts.textRender

\* what a renderer hands back: the values a node-producing step may carry
RenderNodes == {NodeNames[i] : i \in 1..MaxRenderNode}
RenderValues == RenderNodes \cup {Undefined}
YieldSeqs == UNION {[1..n -> RenderNodes] : n \in 0..MaxYields}

\* a renderer call by the shape of what it returns; the synchronous shapes
\* carry the values they produce, the asynchronous ones produce them later
Renderers ==
    {[shape |-> "value", ret |-> v] : v \in RenderValues}
    \cup {[shape |-> "gen", yields |-> y, ret |-> v] : y \in YieldSeqs, v \in RenderValues}
    \cup {[shape |-> "promise"], [shape |-> "asyncgen"]}

\* `renderer` is undefined: no render configured under the called name
NoRenderer == [shape |-> "none"]

\* the default text renderer: ({ content }) => content
DefaultText(content) == [shape |-> "value", ret |-> ContentNames[content + 1]]

\* the renderers `text` may be for a payload with this content
TextRenderers(content) == IF opts.text THEN Renderers ELSE {DefaultText(content)}

\* the state handleRender works on
World == [ui |-> ui, calls |-> calls, invs |-> invs, finished |-> finished]

Commit(w) ==
    /\ ui' = w.ui
    /\ calls' = w.calls
    /\ invs' = w.invs
    /\ finished' = w.finished

\* one call of res.update / res.done, by invocation `id` (0: a stream handler)
Forward(w, id, step, method, args) ==
    LET h == IF method = "update" THEN UIUpdate(w.ui, args[1]) ELSE UIDone(w.ui, args)
    IN  [w EXCEPT !.ui = h,
                  !.calls = Append(@, Call(method, args, h.thrown) @@
                                      [by |-> id, step |-> step])]

Threw(w) == w.calls[Len(w.calls)].outcome # NoThrow

\* the end of an invocation: an exception leaves the async function, and
\* the completion promise unresolved; else resolvable.resolve(void 0)
Complete(w, id) ==
    [w EXCEPT !.invs[id].status = IF Threw(w) THEN "threw" ELSE "resolved"]

\* the final step: if (final) { undefined ? res.done() : res.done(value) }
\* else res.update(value); then resolvable.resolve
ForwardFinal(w, id, value) ==
    Complete(
        IF w.invs[id].final
        THEN Forward(w, id, "return", "done",
                     IF value = Undefined THEN <<>> ELSE <<value>>)
        ELSE Forward(w, id, "return", "update", <<value>>),
        id)

\* an intermediate step: res.update(value) inside the loop
ForwardStep(w, id, value) ==
    LET w2 == Forward(w, id, "yield", "update", <<value>>)
    IN  IF Threw(w2) THEN [w2 EXCEPT !.invs[id].status = "threw"]
        ELSE [w2 EXCEPT !.invs[id].steps = @ + 1]

\* the synchronous generator loop
RECURSIVE RunGenerator(_, _, _, _)
RunGenerator(w, id, yields, ret) ==
    IF w.invs[id].status = "threw" THEN w
    ELSE IF yields = <<>> THEN ForwardFinal(w, id, ret)
    ELSE RunGenerator(ForwardStep(w, id, Head(yields)), id, Tail(yields), ret)

\* handleRender(args, renderer, res, final) up to its first await
handleRender(w, args, renderer, final) ==
    IF renderer.shape = "none" THEN w
    ELSE LET id == Len(w.invs) + 1
             w1 == [w EXCEPT !.invs = Append(@, [args |-> args, final |-> final,
                                                 shape |-> renderer.shape,
                                                 renderer |-> renderer,
                                                 status |-> "running", steps |-> 0]),
                             !.finished = Append(@, id)]
         IN  CASE renderer.shape = "value" -> ForwardFinal(w1, id, renderer.ret)
               [] renderer.shape = "gen" ->
                      RunGenerator(w1, id, renderer.yields, renderer.ret)
               [] OTHER -> w1

\* handleRender for each tool of a tool-call event, in order
RECURSIVE handleTools(_, _, _)
handleTools(w, renderers, i) ==
    IF i > Len(renderers) THEN w
    ELSE handleTools(handleRender(w, [kind |-> "tool", index |-> i], renderers[i], FALSE),
                     renderers, i + 1)

Running(id) == id \in DOMAIN invs /\ invs[id].status = "running"

\* ---- the synchronous body of render after createStreamableUI
RenderBody ==
    /\ subject = "render" /\ flow.pc = "called"
    /\ LET thrown == renderChecks(opts)
       IN  flow' = IF thrown # NoThrow
                   THEN [flow EXCEPT !.pc = "thrown", !.thrown = thrown]
                   ELSE [flow EXCEPT !.pc = "awaitingProvider",
                                     !.providerCalls = @ + 1]
    /\ UNCHANGED <<subject, initial, dev, ui, sv, calls, opts, loc, invs, finished>>

\* provider.chat.completions.create resolves; the stream is consumed
ProviderResolves ==
    /\ subject = "render" /\ flow.pc = "awaitingProvider"
    /\ flow' = [flow EXCEPT !.pc = "streaming"]
    /\ UNCHANGED <<subject, initial, dev, ui, sv, calls, opts, loc, invs, finished>>

Streaming == subject = "render" /\ flow.pc = "streaming" /\ flow.handler = "none"

\* if (textResolver) textResolver.resolve()
ResolveText(r) == IF r = "pending" THEN "resolved" ELSE r

\* OnText that forgets `triggeredTextRender = true`
OnTextRetriggers ==
    /\ Streaming /\ flow.texts < MaxText /\ flow.callEvents = 0
    /\ flow' = [flow EXCEPT !.texts = @ + 1]
    /\ LET content == loc.content + 1
           payload == [content |-> content, done |-> FALSE, delta |-> content]
       IN  IF hasTextRender
           THEN /\ loc' = [loc EXCEPT !.content = content,
                                      !.textPayloads = Append(@, payload),
                                      !.textResolver = ResolveText(@)]
                /\ IF ~loc.triggeredTextRender
                   THEN \E r \in Renderers :
                            Commit(handleRender(World, [kind |-> "iterable"], r, TRUE))
                   ELSE Commit(World)
           ELSE /\ loc' = [loc EXCEPT !.content = content]
                /\ \E r \in TextRenderers(content) :
                       Commit(handleRender(World, [kind |-> "text", payload |-> payload],
                                           r, FALSE))
    /\ UNCHANGED <<subject, initial, dev, sv, opts>>

\* ---- onText(chunk).  The stream delivers its text chunks first, then at
\* most the function/tool call events, then onFinal.
OnText ==
    /\ Streaming /\ flow.texts < MaxText /\ flow.callEvents = 0
    /\ flow' = [flow EXCEPT !.texts = @ + 1]
    /\ LET content == loc.content + 1
           payload == [content |-> content, done |-> FALSE, delta |-> content]
       IN  IF hasTextRender
           THEN /\ loc' = [loc EXCEPT !.content = content,
                                      !.textPayloads = Append(@, payload),
                                      !.textResolver = ResolveText(@),
                                      !.triggeredTextRender = TRUE]
                /\ IF ~loc.triggeredTextRender
                   THEN \E r \in Renderers :
                            Commit(handleRender(World, [kind |-> "iterable"], r, TRUE))
                   ELSE Commit(World)
           ELSE /\ loc' = [loc EXCEPT !.content = content]
                /\ \E r \in TextRenderers(content) :
                       Commit(handleRender(World, [kind |-> "text", payload |-> payload],
                                           r, FALSE))
    /\ UNCHANGED <<subject, initial, dev, sv, opts>>

\* ---- experimental_onFunctionCall(functionCallPayload)
OnFunctionCall ==
    /\ Streaming /\ opts.functions /\ flow.callEvents < MaxCallEvents
    /\ flow' = [flow EXCEPT !.callEvents = @ + 1]
    /\ loc' = [loc EXCEPT !.hasFunction = TRUE]
    /\ \E r \in Renderers \cup {NoRenderer} :
           Commit(handleRender(World, [kind |-> "function"], r, TRUE))
    /\ UNCHANGED <<subject, initial, dev, sv, opts>>

\* ---- experimental_onToolCall(toolCallPayload), up to `await finished`
OnToolCall ==
    /\ Streaming /\ opts.tools /\ flow.callEvents < MaxCallEvents
    /\ flow' = [flow EXCEPT !.callEvents = @ + 1, !.handler = "toolDone"]
    /\ loc' = [loc EXCEPT !.hasFunction = TRUE]
    /\ \E n \in 1..MaxTools :
         \E rs \in [1..n -> Renderers \cup {NoRenderer}] :
           Commit(handleTools(World, rs, 1))
    /\ UNCHANGED <<subject, initial, dev, sv, opts>>

\* OnFinal without `if (hasFunction) return`
OnFinalIgnoresHasFunction ==
    /\ Streaming
    /\ IF finishedInner
       THEN /\ flow' = [flow EXCEPT !.pc = "ended"]
            /\ loc' = loc
            /\ Commit(World)
       ELSE IF hasTextRender
       THEN /\ flow' = [flow EXCEPT !.pc = "ended"]
            /\ loc' = [loc EXCEPT
                           !.textPayloads = Append(@, [content |-> loc.content,
                                                       done |-> TRUE, delta |-> 0]),
                           !.textResolver = ResolveText(@),
                           !.triggeredTextRender = TRUE]
            /\ IF ~loc.triggeredTextRender
               THEN \E r \in Renderers :
                        Commit(handleRender(World, [kind |-> "iterable"], r, TRUE))
               ELSE Commit(World)
       ELSE /\ flow' = [flow EXCEPT !.pc = "ended", !.handler = "finalDone"]
            /\ loc' = loc
            /\ \E r \in TextRenderers(loc.content) :
                   Commit(handleRender(World,
                              [kind |-> "text",
                               payload |-> [content |-> loc.content, done |-> TRUE]],
                              r, FALSE))
    /\ UNCHANGED <<subject, initial, dev, sv, opts>>

\* ---- onFinal(), up to its return or its `await finished`
OnFinal ==
    /\ Streaming
    /\ IF finishedInner \/ loc.hasFunction
       THEN /\ flow' = [flow EXCEPT !.pc = "ended"]
            /\ loc' = loc
            /\ Commit(World)
       ELSE IF hasTextRender
       THEN /\ flow' = [flow EXCEPT !.pc = "ended"]
            /\ loc' = [loc EXCEPT
                           !.textPayloads = Append(@, [content |-> loc.content,
                                                       done |-> TRUE, delta |-> 0]),
                           !.textResolver = ResolveText(@),
                           !.triggeredTextRender = TRUE]
            /\ IF ~loc.triggeredTextRender
               THEN \E r \in Renderers :
                        Commit(handleRender(World, [kind |-> "iterable"], r, TRUE))
               ELSE Commit(World)
       ELSE /\ flow' = [flow EXCEPT !.pc = "ended", !.handler = "finalDone"]
            /\ loc' = loc
            /\ \E r \in TextRenderers(loc.content) :
                   Commit(handleRender(World,
                              [kind |-> "text",
                               payload |-> [content |-> loc.content, done |-> TRUE]],
                              r, FALSE))
    /\ UNCHANGED <<subject, initial, dev, sv, opts>>

\* ---- the rest of a handler after `await finished`: ui.done()
AfterAwaitFinished ==
    /\ subject = "render" /\ flow.handler \in {"toolDone", "finalDone"}
    /\ ~finishedInner
    /\ flow' = [flow EXCEPT !.handler = "none"]
    /\ Commit(Forward(World, 0, flow.handler, "done", <<>>))
    /\ UNCHANGED <<subject, initial, dev, sv, opts, loc>>

\* ---- a renderer's promise resolves with a node: handleRender resumes
PromiseResolves ==
    /\ subject = "render"
    /\ \E id \in DOMAIN invs : \E v \in RenderValues :
         /\ Running(id) /\ invs[id].shape = "promise"
         /\ Commit(ForwardFinal(World, id, v))
    /\ UNCHANGED <<subject, initial, dev, sv, opts, flow, loc>>

\* ---- an async generator yields: `await it.next()` gives done: false
GeneratorYields ==
    /\ subject = "render"
    /\ \E id \in DOMAIN invs : \E v \in RenderNodes :
         /\ Running(id) /\ invs[id].shape = "asyncgen"
         /\ invs[id].steps < MaxYields
         /\ Commit(ForwardStep(World, id, v))
    /\ UNCHANGED <<subject, initial, dev, sv, opts, flow, loc>>

\* ---- an async generator returns: `await it.next()` gives done: true
GeneratorReturns ==
    /\ subject = "render"
    /\ \E id \in DOMAIN invs : \E v \in RenderValues :
         /\ Running(id) /\ invs[id].shape = "asyncgen"
         /\ Commit(ForwardFinal(World, id, v))
    /\ UNCHANGED <<subject, initial, dev, sv, opts, flow, loc>>

\* ShiftPayload that takes the newest payload (pop) instead of the oldest
ShiftPayloadPops(l) ==
    IF l.textPayloads = <<>>
    THEN [l EXCEPT !.pull = "idle", !.pulled = Append(@, [threw |-> "TypeError"])]
    ELSE LET payload == l.textPayloads[Len(l.textPayloads)]
         IN  [l EXCEPT !.textPayloads = SubSeq(@, 1, Len(@) - 1),
                       !.done = IF payload.done THEN TRUE ELSE @,
                       !.pull = "idle",
                       !.pulled = Append(@, [done |-> FALSE, value |-> payload])]

\* ---- textSyncIterable: const payload = textPayloads.shift()! and the return
ShiftPayload(l) ==
    IF l.textPayloads = <<>>
    THEN [l EXCEPT !.pull = "idle", !.pulled = Append(@, [threw |-> "TypeError"])]
    ELSE LET payload == Head(l.textPayloads)
         IN  [l EXCEPT !.textPayloads = Tail(@),
                       !.done = IF payload.done THEN TRUE ELSE @,
                       !.pull = "idle",
                       !.pulled = Append(@, [done |-> FALSE, value |-> payload])]

\* ---- the renderer calls next() on the iterator, one call at a time
IteratorNext ==
    /\ subject = "render" /\ loc.pull = "idle" /\ Len(loc.pulled) < MaxPulls
    /\ \E id \in DOMAIN invs :
         /\ Running(id) /\ invs[id].args.kind = "iterable"
         /\ invs[id].shape \in {"promise", "asyncgen"}
    /\ loc' = IF loc.done
              THEN [loc EXCEPT !.pulled = Append(@, [done |-> TRUE])]
              ELSE IF loc.textPayloads = <<>>
              THEN [loc EXCEPT !.textResolver = "pending", !.pull = "suspended"]
              ELSE ShiftPayload(loc)
    /\ UNCHANGED <<subject, initial, dev, ui, sv, calls, opts, flow, invs, finished>>

\* ---- next() resumes after `await textResolver.promise`
IteratorResumes ==
    /\ subject = "render" /\ loc.pull = "suspended" /\ loc.textResolver = "resolved"
    /\ loc' = ShiftPayload([loc EXCEPT !.textResolver = "null"])
    /\ UNCHANGED <<subject, initial, dev, ui, sv, calls, opts, flow, invs, finished>>

\* render(options) has been entered and line 286 has made the output stream
InitRender ==
    /\ subject = "render"
    /\ dev = FALSE
    /\ initial \in RenderValues
    /\ ui = createStreamableUI(initial)
    /\ sv = createStreamableValue(Undefined)
    /\ calls = <<>>
    /\ opts \in [text : BOOLEAN, textRender : BOOLEAN, functions : BOOLEAN, tools : BOOLEAN]
    /\ flow = [pc |-> "called", thrown |-> NoThrow, providerCalls |-> 0, texts |-> 0,
               callEvents |-> 0, handler |-> "none"]
    /\ loc = [hasFunction |-> FALSE, triggeredTextRender |-> FALSE, content |-> 0,
              textPayloads |-> <<>>, textResolver |-> "null", done |-> FALSE,
              pull |-> "idle", pulled |-> <<>>]
    /\ invs = <<>>
    /\ finished = <<>>

NextRender ==
    \/ RenderBody
    \/ ProviderResolves
    \/ OnText
    \/ OnFunctionCall
    \/ OnToolCall
    \/ OnFinal
    \/ AfterAwaitFinished
    \/ PromiseResolves
    \/ GeneratorYields
    \/ GeneratorReturns
    \/ IteratorNext
    \/ IteratorResumes

SpecRender == InitRender /\ [][NextRender]_vars

\* ================================================================ claims
UISubject == subject = "createStreamableUI"
SVSubject == subject = "createStreamableValue"

LastOf(s) == s[Len(s)]
Returned(c) == c.outcome = NoThrow
Mutating(c) == c.method \in {"update", "append", "error", "done"}
Terminal(c) == c.method \in {"error", "done"}

\* the message the closed handle of the subject throws for a method
ClosedMessage(method) ==
    IF UISubject THEN UIClosedMessage("." \o method \o "()")
    ELSE SVClosedMessage("." \o method \o "()")

\* what a consumer reads by awaiting `next` from promise p on
RECURSIVE ChainFrom(_, _)
ChainFrom(ps, p) ==
    IF ps[p].status # "resolved" THEN <<>>
    ELSE <<ps[p].val>> \o
         (IF "next" \in DOMAIN ps[p].val THEN ChainFrom(ps, ps[p].val.next) ELSE <<>>)

UIChain == ChainFrom(ui.promises, ui.value.next)

\* the value the calls log[1..n] left as the current one
RECURSIVE LastSet(_, _)
LastSet(log, n) ==
    IF n = 0 THEN initial
    ELSE IF Returned(log[n]) /\ log[n].method \in {"update", "append"}
    THEN log[n].args[1]
    ELSE LastSet(log, n - 1)

\* ---------------------------------------------------------------- C1
\* C1: on either core at most one error()/done() call succeeds; from then on
\* the handle stays closed, and every later update/append/error/done throws
\* the "already closed" error naming the method, settles no promise and
\* leaves the current value alone.
C1Step(h, h2) ==
    LET c == LastOf(calls')
    IN  /\ Cardinality({i \in DOMAIN calls' :
                          Terminal(calls'[i]) /\ Returned(calls'[i])}) <= 1
        /\ h.closed => h2.closed
        /\ (Terminal(c) /\ Returned(c)) => (~h.closed /\ h2.closed)
        /\ (h.closed /\ Mutating(c)) =>
              /\ c.outcome = ClosedMessage(c.method)
              /\ h2.promises = h.promises
              /\ h2.currentValue = h.currentValue

C1_SingleTerminalTransition ==
    [][calls' # calls =>
         IF UISubject THEN C1Step(ui, ui') ELSE C1Step(sv, sv')]_vars

C1_Witness ==
    /\ SVSubject
    /\ \E i, j \in DOMAIN calls :
         /\ i < j
         /\ Terminal(calls[i]) /\ Returned(calls[i])
         /\ calls[j].method = "done" /\ ~Returned(calls[j])

\* ---------------------------------------------------------------- C2
\* what the issued calls should have put on the chain, in order: a link per
\* update that changed the value and per append, then one terminal link
RECURSIVE IssuedLinks(_, _, _)
IssuedLinks(log, i, cur) ==
    IF i > Len(log) THEN <<>>
    ELSE LET c == log[i]
         IN  IF ~Returned(c) \/ c.method = "error" THEN IssuedLinks(log, i + 1, cur)
             ELSE IF c.method = "done" THEN <<[done |-> TRUE]>>
             ELSE IF c.method = "update" /\ c.args[1] = cur
             THEN IssuedLinks(log, i + 1, cur)
             ELSE <<[value |-> c.args[1], append |-> c.method = "append",
                     done |-> FALSE]>> \o IssuedLinks(log, i + 1, c.args[1])

LinkShape(chunk) ==
    IF chunk.done THEN [done |-> TRUE]
    ELSE [value |-> chunk.value, append |-> "append" \in DOMAIN chunk, done |-> FALSE]

\* C2: the UI chain read from the initial value holds the links of the
\* update/append calls in the order they were issued; with done called it
\* ends in exactly one done:true chunk without next, and every other chunk
\* has done:false and a next.
C2_ChainFIFO ==
    UISubject =>
        LET chain == UIChain
        IN  /\ [i \in 1..Len(chain) |-> LinkShape(chain[i])]
                 = IssuedLinks(calls, 1, initial)
            /\ \A i \in 1..Len(chain) :
                 /\ chain[i].done = ("next" \notin DOMAIN chain[i])
                 /\ chain[i].done => i = Len(chain)
            /\ (\E i \in DOMAIN calls : calls[i].method = "done" /\ Returned(calls[i]))
                 => (Len(chain) > 0 /\ LastOf(chain).done)

C2_Witness ==
    /\ UISubject
    /\ Len(UIChain) = 3
    /\ "append" \in DOMAIN UIChain[2]
    /\ UIChain[1].value # UIChain[2].value
    /\ UIChain[3].done

\* ---------------------------------------------------------------- C3
\* C3: update(v) with v identical to the current value emits no link and
\* leaves the tail and the current value as they were; update(v) twice in a
\* row makes one link.
C3Step ==
    LET c == LastOf(calls')
    IN  (UISubject /\ calls' # calls /\ c.method = "update" /\ ~ui.closed
            /\ c.args[1] = ui.currentValue) =>
           /\ Returned(c)
           /\ ui'.promises = ui.promises
           /\ ui'.resolve = ui.resolve
           /\ ui'.reject = ui.reject
           /\ ui'.currentValue = ui.currentValue
           /\ (Len(calls') = 2 /\ calls'[1] = c /\ c.args[1] # initial)
                 => Len(UIChain') = 1

C3_ReferentialNoOp == [][C3Step]_vars

C3_Witness ==
    /\ UISubject
    /\ Len(calls) = 2
    /\ calls[1].method = "update" /\ calls[1] = calls[2]
    /\ calls[1].args[1] # initial
    /\ Len(UIChain) = 1

\* ---------------------------------------------------------------- C4
\* C4: on an open UI stream every append(v) resolves the current tail with
\* {value: v, done: false, append: true, next: <new tail>} and rotates the
\* tail, also when v is the current value.
C4Step ==
    LET c == LastOf(calls')
        fresh == Len(ui.promises) + 1
    IN  (UISubject /\ calls' # calls /\ c.method = "append" /\ ~ui.closed) =>
           /\ Returned(c)
           /\ ui.promises[ui.resolve].status = "pending"
           /\ ui'.promises =
                Append([ui.promises EXCEPT ![ui.resolve] =
                           [status |-> "resolved",
                            val |-> [value |-> c.args[1], done |-> FALSE,
                                     append |-> TRUE, next |-> fresh]]],
                       Pending)
           /\ ui'.resolve = fresh
           /\ ui'.reject = fresh
           /\ ~ui'.closed

C4_AppendAlwaysLinks == [][C4Step]_vars

C4_Witness ==
    /\ UISubject
    /\ Len(UIChain) = 2
    /\ "append" \in DOMAIN UIChain[1] /\ "append" \in DOMAIN UIChain[2]
    /\ UIChain[1].value = initial
    /\ UIChain[2].value = initial

\* ---------------------------------------------------------------- C5
DoneReturned(i) == calls[i].method = "done" /\ Returned(calls[i])

\* C5 as the specification words it: the terminal value is
\* `value ?? currentValue`, so a null or undefined argument falls back to
\* the current value.
C5_TerminalValueNullish ==
    UISubject =>
        \A i \in DOMAIN calls :
            DoneReturned(i) =>
                LastOf(UIChain).value =
                    IF Len(calls[i].args) = 0 \/ calls[i].args[1] \in {Undefined, Null}
                    THEN LastSet(calls, i - 1)
                    ELSE calls[i].args[1]

\* C5 (amended): done resolves the tail with {value, done: true}, where value
\* is the argument whenever one is passed, null and undefined included, and
\* the value of the last update/append (or the initial value) only when done
\* is called with no argument.
C5_TerminalValue ==
    UISubject =>
        \A i \in DOMAIN calls :
            DoneReturned(i) =>
                /\ LastOf(UIChain) =
                     [value |-> IF Len(calls[i].args) = 0
                                THEN LastSet(calls, i - 1)
                                ELSE calls[i].args[1],
                      done |-> TRUE]
                /\ ui.promises[Len(ui.promises)].status = "resolved"

C5_Witness ==
    /\ UISubject
    /\ \E i \in DOMAIN calls :
         /\ DoneReturned(i)
         /\ calls[i].args = <<Null>>
         /\ LastSet(calls, i - 1) \in Nodes
         /\ LastOf(UIChain).value = Null

\* ---------------------------------------------------------------- C6
\* the promise a consumer at the end of the chain is awaiting
UITail == IF UIChain = <<>> THEN ui.value.next ELSE LastOf(UIChain).next

\* C6: on an open UI stream error(err) closes it and rejects with err the
\* tail made by the latest update/append (the initial chunk's next when
\* there was none); no link is produced afterwards.
C6Step ==
    LET c == LastOf(calls')
    IN  /\ (UISubject /\ calls' # calls /\ c.method = "error" /\ ~ui.closed) =>
              /\ Returned(c)
              /\ ui'.closed
              /\ ui.reject = UITail
              /\ ui.promises[UITail].status = "pending"
              /\ ui'.promises = [ui.promises EXCEPT ![UITail] =
                                    [status |-> "rejected", reason |-> c.args[1]]]
        /\ (UISubject /\ \E i \in DOMAIN calls :
                            calls[i].method = "error" /\ Returned(calls[i])) =>
              ui'.promises = ui.promises

C6_ErrorRejectsTail == [][C6Step]_vars

C6_Witness ==
    /\ UISubject
    /\ Len(calls) = 3
    /\ calls[1].method = "update" /\ calls[2].method = "error"
    /\ ~Returned(calls[3])
    /\ Len(UIChain) = 1
    /\ Len(ui.promises) = 2
    /\ ui.promises[2].status = "rejected"
    /\ ui.promises[2].reason \in Errors \ {Undefined}

\* ---------------------------------------------------------------- C7
SVErrorStep(c) ==
    SVSubject /\ calls' # calls /\ c.method = "error" /\ ~sv.closed

SVUpdateAfterError(c) ==
    /\ SVSubject /\ calls' # calls /\ c.method = "update"
    /\ \E i \in DOMAIN calls : calls[i].method = "error" /\ Returned(calls[i])

\* C7 as the specification words it: error(e) before any done() rejects the
\* current chain tail with e.
C7Rejects ==
    LET c == LastOf(calls')
    IN  SVErrorStep(c) =>
           /\ sv'.promises[sv.resolvable].status = "rejected"
           /\ sv'.promises[sv.resolvable].reason = c.args[1]

C7_ErrorRejectsTail == [][C7Rejects]_vars

\* C7 (amended): error(e) before any done() settles the current chain tail
\* by resolving it with the record {error: e} (it is never rejected), and
\* any later update fails with the closed-stream error.
C7Resolves ==
    LET c == LastOf(calls')
    IN  /\ SVErrorStep(c) =>
              /\ Returned(c)
              /\ sv.resolvable = sv.currentPromise
              /\ sv.promises[sv.resolvable].status = "pending"
              /\ sv'.promises = [sv.promises EXCEPT ![sv.resolvable] =
                                    [status |-> "resolved",
                                     val |-> [error |-> c.args[1]]]]
              /\ sv'.closed
        /\ SVUpdateAfterError(c) =>
              /\ c.outcome = SVClosedMessage(".update()")
              /\ sv'.promises = sv.promises
        /\ SVSubject =>
              \A p \in DOMAIN sv'.promises : sv'.promises[p].status # "rejected"

C7_ErrorResolvesTail == [][C7Resolves]_vars

C7_Witness ==
    /\ SVSubject
    /\ Len(calls) = 3
    /\ calls[1].method = "update" /\ Returned(calls[1])
    /\ calls[2].method = "error" /\ Returned(calls[2])
    /\ calls[3].method = "update" /\ ~Returned(calls[3])
    /\ sv.promises[2].status = "resolved"
    /\ DOMAIN sv.promises[2].val = {"error"}

\* ---------------------------------------------------------------- C8
SVMutations == SelectSeq(calls, Mutating)

\* C8: createStreamableValue(v0), update(v1) .. update(vn), done(): the
\* value read at creation is {curr: v0, next: P1}; every update emits a link,
\* equal values included, Pi resolving to {curr: vi, next: P(i+1)}; the last
\* tail resolves to the empty record {}.
C8_ValueChain ==
    SVSubject =>
        LET m == SVMutations
            n == Cardinality({i \in DOMAIN m : m[i].method = "update"})
            updatesFirst == \A i \in 1..n : m[i].method = "update"
        IN  /\ (calls # <<>> /\ calls[1].method = "value") =>
                  /\ calls[1].result.curr = initial
                  /\ calls[1].result.next = 1
                  /\ "error" \notin DOMAIN calls[1].result
            /\ (updatesFirst /\ Len(m) = n) =>
                  /\ Len(sv.promises) = n + 1
                  /\ sv.promises[n + 1].status = "pending"
            /\ (updatesFirst /\ Len(m) >= n) =>
                  \A i \in 1..n :
                      /\ sv.promises[i].status = "resolved"
                      /\ sv.promises[i].val = [curr |-> m[i].args[1], next |-> i + 1]
            /\ (updatesFirst /\ Len(m) = n + 1 /\ m[n + 1].method = "done"
                  /\ m[n + 1].args = <<>>) =>
                  /\ Len(sv.promises) = n + 1
                  /\ sv.promises[n + 1].status = "resolved"
                  /\ DOMAIN sv.promises[n + 1].val = {}

C8_Witness ==
    /\ SVSubject
    /\ Len(calls) = 3
    /\ calls[1].method = "update" /\ calls[1].args = <<initial>>
    /\ calls[2] = calls[1]
    /\ calls[3].method = "done" /\ calls[3].args = <<>>
    /\ Len(sv.promises) = 3
    /\ DOMAIN sv.promises[3].val = {}

\* ---------------------------------------------------------------- C9
RenderSubject == subject = "render"

ConflictingOptions ==
    \/ opts.text /\ opts.textRender
    \/ opts.functions /\ opts.tools

\* C9: render called with both text and experimental_textRender, or with
\* both functions and tools, throws synchronously: the provider's
\* completions-create call is never made and no onText, function/tool-call
\* or onFinal event is ever processed.
C9_ConflictThrowsFirst ==
    (RenderSubject /\ ConflictingOptions) =>
        /\ flow.pc \in {"called", "thrown"}
        /\ flow.pc = "thrown" =>
              flow.thrown = IF opts.text /\ opts.textRender
                            THEN TextConflictMessage
                            ELSE FunctionsConflictMessage
        /\ flow.providerCalls = 0
        /\ flow.texts = 0 /\ flow.callEvents = 0 /\ flow.handler = "none"
        /\ loc.content = 0 /\ ~loc.hasFunction /\ loc.textPayloads = <<>>
        /\ invs = <<>> /\ calls = <<>> /\ finished = <<>>

C9_Witness ==
    /\ RenderSubject
    /\ opts.functions /\ opts.tools /\ ~opts.textRender
    /\ flow.pc = "thrown"
    /\ flow.thrown = FunctionsConflictMessage

\* --------------------------------------------------------------- C10
\* the calls invocation id made on the output, in order
CallsBy(id) == SelectSeq(calls, LAMBDA c : c.by = id)

ForwardedValue(c) == IF c.args = <<>> THEN Undefined ELSE c.args[1]

\* C10: for each of the four renderer shapes handleRender forwards every
\* yielded step to the output via update in the order produced, forwards the
\* returned or resolved value via done when it is the final call and via
\* update otherwise, and resolves the completion promise only after that,
\* and then does.
C10_HandleRenderForwards ==
    RenderSubject =>
        \A id \in DOMAIN invs :
            LET cs == CallsBy(id)
                inv == invs[id]
            IN  /\ \A k \in DOMAIN cs :
                     /\ Returned(cs[k])
                     /\ cs[k].step = "yield" => cs[k].method = "update"
                     /\ cs[k].step = "return" =>
                           /\ k = Len(cs)
                           /\ cs[k].method = IF inv.final THEN "done" ELSE "update"
                /\ inv.shape = "gen" =>
                      \A k \in DOMAIN cs :
                          ForwardedValue(cs[k]) = (inv.renderer.yields \o
                                                   <<inv.renderer.ret>>)[k]
                /\ inv.shape = "value" =>
                      /\ Len(cs) = 1
                      /\ ForwardedValue(cs[1]) = inv.renderer.ret
                /\ inv.status # "threw"
                /\ inv.status = "resolved" <=>
                      (cs # <<>> /\ cs[Len(cs)].step = "return")

\* --------------------------------------------------------------- C11
\* the step appends a ui.done() call made by a stream handler after its
\* `await finished` (onToolCall line 522, onFinal line 559)
HandlerDoneStep ==
    /\ RenderSubject /\ Len(calls') = Len(calls) + 1
    /\ LastOf(calls').by = 0 /\ LastOf(calls').method = "done"

\* C11: the ui.done() of the onFinal handler and of the tool-call handler
\* never executes while an invocation dispatched earlier through handleRender
\* has not resolved its completion promise.
C11_ClosureAwaitsRenderers ==
    [][HandlerDoneStep => \A id \in DOMAIN invs : invs[id].status = "resolved"]_vars

\* --------------------------------------------------------------- C12
\* C12: in any run of render the output is terminated at most once and no
\* update or done is attempted on it after it was closed: no call the
\* orchestrator makes on the output fails with the closed-stream error.
C12_NoCallAfterClose ==
    RenderSubject =>
        /\ \A i \in DOMAIN calls : Returned(calls[i])
        /\ Cardinality({i \in DOMAIN calls : calls[i].method = "done"}) <= 1

\* --------------------------------------------------------------- C13
\* the invocation dispatched by onText for a text chunk in simple text mode
TextChunkInv(id) ==
    /\ id \in DOMAIN invs
    /\ invs[id].args.kind = "text"
    /\ ~invs[id].args.payload.done

\* C13: in simple text mode a value rendered from an earlier chunk is never
\* forwarded to the output via update after a value rendered from a later
\* chunk, whatever the shape of the text renderer.
C13_TextInArrivalOrder ==
    RenderSubject =>
        \A i, j \in DOMAIN calls :
            (/\ i < j
             /\ TextChunkInv(calls[i].by) /\ TextChunkInv(calls[j].by)
             /\ Returned(calls[i]) /\ Returned(calls[j])) =>
                invs[calls[i].by].args.payload.content
                    <= invs[calls[j].by].args.payload.content

\* --------------------------------------------------------------- C14
CoreSubject == UISubject \/ SVSubject

Handle == IF UISubject THEN ui ELSE sv

\* the promise the handle's triggers settle next
TailOf(h) == IF UISubject THEN h.resolve ELSE h.resolvable

Unsettled(h) == {p \in DOMAIN h.promises : h.promises[p].status = "pending"}

\* one unsettled promise, the tail, while Open and none once Closed
SingleTail(h) ==
    IF h.closed THEN Unsettled(h) = {}
    ELSE /\ Unsettled(h) = {TailOf(h)}
         /\ UISubject => h.reject = h.resolve
         /\ SVSubject => h.currentPromise = h.resolvable

\* the call settles the tail it found, which was unsettled, and nothing else
SettlesTail(h, h2) ==
    /\ h.promises[TailOf(h)].status = "pending"
    /\ h2.promises[TailOf(h)].status # "pending"
    /\ \A p \in DOMAIN h.promises \ {TailOf(h)} : h2.promises[p] = h.promises[p]
    /\ \A p \in DOMAIN h2.promises \ DOMAIN h.promises : h2.promises[p] = Pending

\* a step that is a successful update/append/done/error on the core
SuccessfulMutation ==
    /\ CoreSubject /\ Len(calls') = Len(calls) + 1
    /\ Mutating(LastOf(calls')) /\ Returned(LastOf(calls'))

\* update(v) on the UI core with v identical to the current value
IdenticalUIUpdate ==
    /\ UISubject
    /\ LastOf(calls').method = "update"
    /\ LastOf(calls').args[1] = ui.currentValue

\* C14 as the specification words it: every successful update/append/done/
\* error settles exactly the current tail; a promise is settled at most
\* once; one unsettled tail while Open, none once Closed.
C14_EveryCallSettlesTail ==
    [][SuccessfulMutation =>
          IF UISubject THEN SettlesTail(ui, ui') ELSE SettlesTail(sv, sv')]_vars

\* C14 (amended): every successful update/append/done/error settles exactly
\* the current tail promise and no other, except an update of the UI core
\* with the identical value, which settles none; every chain promise is
\* settled at most once; at any moment there is exactly one unsettled tail
\* while the handle is Open and none once it is Closed.
C14_SingleTail ==
    /\ [](CoreSubject => SingleTail(Handle))
    /\ [][SuccessfulMutation =>
             IF IdenticalUIUpdate THEN ui'.promises = ui.promises
             ELSE IF UISubject THEN SettlesTail(ui, ui') ELSE SettlesTail(sv, sv')]_vars
    /\ [][CoreSubject =>
             \A p \in DOMAIN Handle.promises :
                 Handle.promises[p].status # "pending" =>
                     /\ p \in DOMAIN Handle'.promises
                     /\ Handle'.promises[p] = Handle.promises[p]]_vars

C14_Witness ==
    /\ UISubject
    /\ Len(calls) = 3
    /\ calls[1].method = "update" /\ calls[1].args[1] = initial
    /\ calls[2].method = "append"
    /\ calls[3].method = "done" /\ Returned(calls[3])
    /\ Len(ui.promises) = 2
    /\ Unsettled(ui) = {}

\* --------------------------------------------------------------- C15
\* curr and error are not both present
CurrXorError(rec) == ~({"curr", "error"} \subseteq DOMAIN rec)

\* a record handed out by the value getter, read when the handle was `closed`
GetterRecordOK(rec, closed) ==
    /\ CurrXorError(rec)
    /\ ("next" \in DOMAIN rec) <=> ~closed
    /\ "type" \in DOMAIN rec /\ rec.type = STREAMABLE_VALUE_TYPE

\* a record resolved into a next promise, created when the handle was `closed`
ChainRecordOK(rec, closed) ==
    /\ CurrXorError(rec)
    /\ ("next" \in DOMAIN rec) <=> ~closed
    /\ "type" \notin DOMAIN rec

\* the promises the step resolves
ResolvedByStep ==
    {p \in DOMAIN sv.promises :
        sv.promises[p].status = "pending" /\ sv'.promises[p].status = "resolved"}

C15Step ==
    (SVSubject /\ Len(calls') = Len(calls) + 1) =>
        LET c == LastOf(calls')
        IN  /\ c.method = "value" => GetterRecordOK(c.result, sv.closed)
            /\ \A p \in ResolvedByStep : ChainRecordOK(sv'.promises[p].val, sv'.closed)

\* C15: in every record createStreamableValue produces, by the value getter
\* or resolved into a next promise, curr and error are never both present;
\* next is present exactly when the handle was still Open when the record
\* was created; the type marker is on every getter record and on no record
\* resolved into a next promise.
C15_RecordShape ==
    /\ [][C15Step]_vars
    /\ [](SVSubject =>
            /\ \A p \in DOMAIN sv.promises :
                 sv.promises[p].status = "resolved" =>
                     /\ CurrXorError(sv.promises[p].val)
                     /\ "type" \notin DOMAIN sv.promises[p].val
            /\ \A i \in DOMAIN calls :
                 calls[i].method = "value" =>
                     /\ CurrXorError(calls[i].result)
                     /\ "type" \in DOMAIN calls[i].result)

C15_Witness ==
    /\ SVSubject
    /\ Len(calls) = 3
    /\ calls[1].method = "update"
    /\ calls[2].method = "error" /\ calls[2].args[1] # Undefined
    /\ calls[3].method = "value"
    /\ DOMAIN calls[3].result = {"error", "type"}
    /\ DOMAIN sv.promises[1].val = {"curr", "next"}
    /\ DOMAIN sv.promises[2].val = {"error"}

\* --------------------------------------------------------------- C16
\* render runs in iterator mode: experimental_textRender is set, text is not
IteratorMode == RenderSubject /\ opts.textRender /\ ~opts.text

\* the invocations of the user's experimental_textRender
IterableInvs == {id \in DOMAIN invs : invs[id].args.kind = "iterable"}

\* C16: in iterator mode, over any sequence of onText and onFinal events, the
\* user renderer is invoked exactly once, on the first onText chunk or from
\* onFinal when no chunk came before it, never a second time, and that
\* invocation is dispatched as the final call.
C16_IteratorRendererOnce ==
    IteratorMode =>
        /\ Cardinality(IterableInvs) <= 1
        /\ \A id \in IterableInvs : invs[id].final
        /\ flow.callEvents = 0 =>
              Cardinality(IterableInvs) =
                  IF flow.texts > 0 \/ flow.pc = "ended" THEN 1 ELSE 0
        /\ flow.texts > 0 => Cardinality(IterableInvs) = 1

C16_Witness ==
    /\ IteratorMode
    /\ flow.texts = 2 /\ flow.pc = "ended" /\ flow.callEvents = 0
    /\ Cardinality(IterableInvs) = 1

\* --------------------------------------------------------------- C17
\* the step is the stream's onFinal event
OnFinalStep == RenderSubject /\ flow.pc = "streaming" /\ flow'.pc = "ended"

\* a function call or tool call event has been handled
CallHandled == flow.callEvents > 0 /\ flow.handler = "none"

\* C17: once a function call or tool call event has been handled onFinal is
\* a no-op: it dispatches no renderer, enqueues no text payload and does not
\* call done on the output, at once or after an await.
C17_OnFinalNoOpAfterCall ==
    [][(OnFinalStep /\ CallHandled) =>
          /\ invs' = invs /\ finished' = finished
          /\ loc' = loc
          /\ calls' = calls /\ ui' = ui
          /\ flow'.handler = "none"]_vars

C17_Witness ==
    /\ RenderSubject
    /\ flow.pc = "ended" /\ flow.callEvents = 1 /\ flow.texts = 1
    /\ loc.hasFunction
    /\ opts.functions /\ opts.textRender
    /\ Len(invs) = 1 /\ Len(loc.textPayloads) = 1

\* --------------------------------------------------------------- C18
\* the payloads onText and onFinal have enqueued so far, in arrival order
EnqueuedPayloads ==
    [i \in 1..flow.texts |-> [content |-> i, done |-> FALSE, delta |-> i]]
    \o (IF flow.pc = "ended" /\ ~loc.hasFunction
        THEN <<[content |-> flow.texts, done |-> TRUE, delta |-> 0]>>
        ELSE <<>>)

\* a pull that delivered a payload
Delivered(r) == "value" \in DOMAIN r

\* the payloads the renderer's pulls have delivered, in order
PulledPayloads ==
    LET d == SelectSeq(loc.pulled, Delivered)
    IN  [k \in 1..Len(d) |-> d[k].value]

\* a pull that reported the sequence finished
Finished(r) == r = [done |-> TRUE]

PullsInOrder ==
    /\ \A k \in DOMAIN loc.pulled : Delivered(loc.pulled[k]) \/ Finished(loc.pulled[k])
    /\ PulledPayloads \o loc.textPayloads = EnqueuedPayloads
    /\ \A k \in DOMAIN loc.pulled :
         IF k > 1 /\ (Finished(loc.pulled[k - 1]) \/ loc.pulled[k - 1].value.done)
         THEN Finished(loc.pulled[k])
         ELSE Delivered(loc.pulled[k])
    /\ loc.done <=> \E k \in DOMAIN loc.pulled :
                        Delivered(loc.pulled[k]) /\ loc.pulled[k].value.done
    /\ loc.pull = "suspended" =>
          IF loc.textResolver = "pending" THEN loc.textPayloads = <<>>
          ELSE loc.textResolver = "resolved" /\ loc.textPayloads # <<>>

\* a pull made on an empty buffer, the sequence not finished
PullOnEmpty ==
    /\ loc.pull = "idle" /\ loc'.pull # "idle"
    /\ loc.textPayloads = <<>>

PullSuspends ==
    /\ PullOnEmpty => (~loc.done /\ loc'.pull = "suspended" /\ loc'.pulled = loc.pulled)
    /\ (loc.pull = "idle" /\ loc.textPayloads = <<>> /\ ~loc.done) =>
           loc'.pulled = loc.pulled
    /\ (loc.pull = "suspended" /\ loc.textPayloads = <<>>) => loc'.pulled = loc.pulled
    /\ (loc.pull = "suspended" /\ loc'.pull = "idle") =>
           /\ loc.textPayloads # <<>>
           /\ loc'.pulled = Append(loc.pulled, [done |-> FALSE,
                                                value |-> Head(loc.textPayloads)])

\* C18: in iterator mode the sequence handed to the renderer, pulled one item
\* at a time, yields every enqueued text payload exactly once in arrival
\* order, suspends a pull made on an empty buffer until the next onText or
\* onFinal enqueues a payload, yields the done:true payload last and reports
\* the sequence finished on every pull after it.
C18_IteratorSequence ==
    /\ [](IteratorMode => PullsInOrder)
    /\ [][IteratorMode => PullSuspends]_vars

C18_Witness ==
    /\ IteratorMode
    /\ Len(loc.pulled) = 3
    /\ PulledPayloads = <<[content |-> 1, done |-> FALSE, delta |-> 1],
                          [content |-> 1, done |-> TRUE, delta |-> 0]>>
    /\ Finished(loc.pulled[3])

\* --------------------------------------------------------------- C19
\* the run is over: onFinal has been called, no handler is waiting to
\* continue and every invoked renderer has completed
RunOver ==
    /\ flow.pc = "ended" /\ flow.handler = "none"
    /\ \A id \in DOMAIN invs : invs[id].status # "running"

\* C19: in every run of render in which the event source calls onFinal and
\* every invoked renderer completes, the output stream ends up closed (its
\* chain reaches a terminal chunk or a rejection), also when a function or
\* tool call names no configured renderer.
C19_EventuallyClosed ==
    (RenderSubject /\ RunOver) => ui.closed

\* --------------------------------------------------------------- C20
\* what a consumer displays after folding the chain: the pieces it shows,
\* in order; a plain link replaces them, an append link adds one
RECURSIVE FoldChain(_, _, _)
FoldChain(chain, i, shown) ==
    IF i > Len(chain) THEN shown
    ELSE FoldChain(chain, i + 1,
                   IF "append" \in DOMAIN chain[i] /\ chain[i].append
                   THEN Append(shown, chain[i].value)
                   ELSE <<chain[i].value>>)

Displayed == FoldChain(UIChain, 1, <<ui.value.value>>)

OnlyUpdatesAndAppends ==
    \A i \in DOMAIN calls : calls[i].method \in {"update", "append"}

\* C20: on the UI core, after any sequence of update/append calls, a
\* consumer folding the chain displays exactly v after every successful
\* update(v), also when the update was skipped as referentially equal and
\* the call before it was append(v).
C20_ConsumerShowsUpdate ==
    (/\ UISubject /\ calls # <<>> /\ OnlyUpdatesAndAppends
     /\ LastOf(calls).method = "update" /\ Returned(LastOf(calls))) =>
        Displayed = <<LastOf(calls).args[1]>>

====
